---- MODULE Spec2Model ----
(***************************************************************************)
(* Model of src/Automation/main.py: the script runner.                     *)
(*                                                                         *)
(* parse_repetitions, validate_script and run_script are modelled from     *)
(* their code; main() is modelled as the orchestrator that submits the     *)
(* units to a ProcessPoolExecutor, retrieves the futures as they complete  *)
(* and logs the summary.  Paths are sequences of one-character strings so  *)
(* that the regular expression of parse_repetitions is computed, not       *)
(* assumed.                                                                *)
(***************************************************************************)
EXTENDS Integers, Sequences, FiniteSets, TLC

VARIABLES
    scripts,             \* main(): the list of unit paths
    submitted,           \* main(): how many units executor.submit has taken
    opc,                 \* main(): position of the orchestrator
    queue,               \* the executor's pending work items, in FIFO order
    worker,              \* worker -> the unit it is running (0: idle)
    upc,                 \* unit -> position of its run_script call
    max_repetitions,     \* unit -> run_script's max_repetitions (-1: not parsed)
    attempt,             \* unit -> run_script's loop variable
    delays,              \* unit -> number of get_random_delay() calls
    sleeps,              \* unit -> number of time.sleep() calls
    spawned,             \* unit -> number of child processes created
    exits,               \* unit -> exit statuses of its children, in order
    valid,               \* unit -> what validate_script returned ("valid", "invalid")
    future,              \* unit -> state of its future
    retrieved,           \* units whose future the as_completed loop has handled
    successful_scripts,  \* main(): list of paths
    failed_scripts,      \* main(): list of paths
    summary,             \* the summaries that were logged, in order
    arg_path,            \* function harness: the path under test
    arg_fs,              \* function harness: <<the file-system state under test>>
    ret_parse,           \* function harness: parse_repetitions(arg_path) (-1: not called)
    ret_validate         \* function harness: <<validate_script(arg_fs)>>

uvars == <<upc, max_repetitions, attempt, delays, sleeps, spawned, exits, valid>>
ovars == <<scripts, submitted, opc, retrieved, successful_scripts,
           failed_scripts, summary>>
fvars == <<arg_path, arg_fs, ret_parse, ret_validate>>
vars == <<scripts, submitted, opc, queue, worker, upc, max_repetitions,
          attempt, delays, sleeps, spawned, exits, valid, future, retrieved,
          successful_scripts, failed_scripts, summary,
          arg_path, arg_fs, ret_parse, ret_validate>>

----------------------------------------------------------------------------
(* Bounds and program constants *)

\* Workers of the pool.  main() builds ProcessPoolExecutor(max_workers=4) and
\* submits 5 scripts; the run is checked with a smaller pool that keeps the
\* shape of the program's: one unit more than there are workers.
MaxWorkers == 2

\* Entries of the scripts list
NumUnits == 3

\* Longest stem of a path handed to parse_repetitions on its own
MaxLen == 4

----------------------------------------------------------------------------
(* Characters and strings *)

DigitChars == <<"0", "1", "2", "3", "4", "5", "6", "7", "8", "9">>

Digits == {DigitChars[i] : i \in 1..10}

\* \d of the regular expression
IsDigit(c) == c \in Digits

DigitVal(c) == (CHOOSE i \in 1..10 : DigitChars[i] = c) - 1

SetMax(S) == CHOOSE x \in S : \A y \in S : y <= x

SetMin(S) == CHOOSE x \in S : \A y \in S : x <= y

\* int(match.group(1))
RECURSIVE ToInt(_)
ToInt(ds) ==
    IF ds = <<>> THEN 0
    ELSE 10 * ToInt(SubSeq(ds, 1, Len(ds) - 1)) + DigitVal(ds[Len(ds)])

\* os.path.basename (POSIX): what follows the last "/"
basename(p) ==
    LET slashes == {i \in 1..Len(p) : p[i] = "/"}
        i == IF slashes = {} THEN 0 ELSE SetMax(slashes)
    IN  SubSeq(p, i + 1, Len(p))

\* "$" without re.MULTILINE: the end of the string, or just before a newline
\* that is the last character of the string.  j characters are consumed.
AtDollar(s, j) ==
    \/ j = Len(s)
    \/ j = Len(s) - 1 /\ s[Len(s)] = "\n"

\* the pattern -(\d+)\.py$ matches s from position i with an n-digit group
MatchAt(s, i, n) ==
    /\ n >= 1
    /\ i + n + 3 <= Len(s)
    /\ s[i] = "-"
    /\ \A k \in (i + 1)..(i + n) : IsDigit(s[k])
    /\ s[i + n + 1] = "."
    /\ s[i + n + 2] = "p"
    /\ s[i + n + 3] = "y"
    /\ AtDollar(s, i + n + 3)

\* re.search(r'-(\d+)\.py$', s): the leftmost position that matches, with the
\* longest digit group there (\d+ is greedy); <<>> stands for None, otherwise
\* <<group(1)>>.
re_search(s) ==
    LET starts == {i \in 1..Len(s) : \E n \in 1..Len(s) : MatchAt(s, i, n)}
    IN  IF starts = {} THEN <<>>
        ELSE LET i == SetMin(starts)
                 n == SetMax({m \in 1..Len(s) : MatchAt(s, i, m)})
             IN  <<SubSeq(s, i + 1, i + n)>>

parse_repetitions(script_path) ==
    LET filename == basename(script_path)
        match == re_search(filename)
    IN  IF match # <<>> THEN ToInt(match[1]) ELSE 1

----------------------------------------------------------------------------
(* The file system as validate_script sees it *)

\* kind: what the path names; readable: os.access(path, os.R_OK)
FsStates ==
    { [kind |-> "missing", readable |-> FALSE],
      [kind |-> "dir",     readable |-> TRUE],
      [kind |-> "dir",     readable |-> FALSE],
      [kind |-> "file",    readable |-> FALSE],
      [kind |-> "file",    readable |-> TRUE] }

os_path_exists(f) == f.kind # "missing"

os_path_isfile(f) == f.kind = "file"

os_access_R_OK(f) == f.kind # "missing" /\ f.readable

\* validate_script with the read check made before the file check
validate_script_swapped(f) ==
    IF ~os_path_exists(f) THEN
        [result |-> FALSE, errors |-> <<"Script does not exist">>]
    ELSE IF ~os_access_R_OK(f) THEN
        [result |-> FALSE, errors |-> <<"Script is not readable">>]
    ELSE IF ~os_path_isfile(f) THEN
        [result |-> FALSE, errors |-> <<"Not a file">>]
    ELSE
        [result |-> TRUE, errors |-> <<>>]

\* the value returned and the error messages logged
validate_script(f) ==
    IF ~os_path_exists(f) THEN
        [result |-> FALSE, errors |-> <<"Script does not exist">>]
    ELSE IF ~os_path_isfile(f) THEN
        [result |-> FALSE, errors |-> <<"Not a file">>]
    ELSE IF ~os_access_R_OK(f) THEN
        [result |-> FALSE, errors |-> <<"Script is not readable">>]
    ELSE
        [result |-> TRUE, errors |-> <<>>]

----------------------------------------------------------------------------
(* The units *)

Units == 1..NumUnits

Workers == 1..MaxWorkers

\* endings of the file names the units of a run may have: the repetition
\* groups 0 and 2
UnitSuffixes ==
    { <<"-", "0", ".", "p", "y">>,
      <<"-", "2", ".", "p", "y">> }

\* the units of one run live in one directory and have distinct names
UnitPath(u, suffix) == <<"A", "/", "u", DigitChars[u + 1]>> \o suffix

ScriptLists ==
    { [u \in Units |-> UnitPath(u, sfx[u])] : sfx \in [Units -> UnitSuffixes] }

\* exit statuses of a child process: zero, and one that stands for non-zero
ExitStatuses == {0, 1}

----------------------------------------------------------------------------
(* run_script *)

\* range(max_repetitions - 1): the last iteration is lost
range_has_short(a, reps) == a + 1 < reps

\* range(max_repetitions + 1): one iteration too many
range_has_long(a, reps) == a <= reps

\* for attempt in range(max_repetitions): is there an iteration for index a
range_has(a, reps) == a < reps

\* subprocess.run without check=True: no status raises
attempt_failed_never(status) == FALSE

\* subprocess.run(check=True) raises CalledProcessError on a non-zero status,
\* and run_script returns False from the handler
attempt_failed(status) == status # 0

\* run_script reports through a flag shared by the units: a unit succeeds
\* only if no unit before it has failed or raised
Return_shared(u, result) ==
    /\ upc' = [upc EXCEPT ![u] = "returned"]
    /\ future' = [future EXCEPT ![u] =
           IF result /\ \A v \in Units : future[v] \notin {"false", "exception"}
           THEN "true" ELSE "false"]
    /\ worker' = [w \in Workers |-> IF worker[w] = u THEN 0 ELSE worker[w]]

\* run_script returns but the worker is never given back to the pool
Return_holds(u, result) ==
    /\ upc' = [upc EXCEPT ![u] = "returned"]
    /\ future' = [future EXCEPT ![u] = IF result THEN "true" ELSE "false"]
    /\ UNCHANGED worker

\* run_script returns `result`: the future is resolved and the worker is free
Return(u, result) ==
    /\ upc' = [upc EXCEPT ![u] = "returned"]
    /\ future' = [future EXCEPT ![u] = IF result THEN "true" ELSE "false"]
    /\ worker' = [w \in Workers |-> IF worker[w] = u THEN 0 ELSE worker[w]]

\* run_script raises: the exception is stored in the future
Raise(u) ==
    /\ upc' = [upc EXCEPT ![u] = "raised"]
    /\ future' = [future EXCEPT ![u] = "exception"]
    /\ worker' = [w \in Workers |-> IF worker[w] = u THEN 0 ELSE worker[w]]

\* an iteration that goes to the child process without a delay of its own
BeginAttempt_nodelay(u) ==
    /\ UNCHANGED <<delays, sleeps>>
    /\ upc' = [upc EXCEPT ![u] = "sleep"]
    /\ UNCHANGED <<future>>

\* one iteration begins: the delay is drawn and the worker goes to sleep
BeginAttempt(u) ==
    /\ delays' = [delays EXCEPT ![u] = @ + 1]
    /\ sleeps' = [sleeps EXCEPT ![u] = @ + 1]
    /\ upc' = [upc EXCEPT ![u] = "sleep"]
    /\ UNCHANGED <<future>>

\* a worker takes the next work item whatever it is doing
worker_idle_always(w) == TRUE

\* an idle worker may take the next work item
worker_idle(w) == worker[w] = 0

\* A worker takes the oldest pending unit and calls run_script, which
\* validates the path, parses the repetitions and enters the loop.
Start(w, f) ==
    /\ queue # <<>>
    /\ worker_idle(w)
    /\ LET u == Head(queue)
           ok == validate_script(f).result
           reps == parse_repetitions(scripts[u])
       IN  /\ queue' = Tail(queue)
           /\ valid' = [valid EXCEPT ![u] = IF ok THEN "valid" ELSE "invalid"]
           /\ IF ~ok THEN
                  /\ Return(u, FALSE)
                  /\ UNCHANGED <<max_repetitions, delays, sleeps>>
              ELSE
                  /\ max_repetitions' = [max_repetitions EXCEPT ![u] = reps]
                  /\ IF range_has(0, reps) THEN
                         /\ BeginAttempt(u)
                         /\ worker' = [worker EXCEPT ![w] = u]
                     ELSE
                         /\ Return(u, TRUE)
                         /\ UNCHANGED <<delays, sleeps>>
    /\ UNCHANGED <<attempt, spawned, exits>>
    /\ UNCHANGED <<ovars, fvars>>

\* time.sleep returns and subprocess.run creates the child process
Spawn(u) ==
    /\ upc[u] = "sleep"
    /\ upc' = [upc EXCEPT ![u] = "child"]
    /\ spawned' = [spawned EXCEPT ![u] = @ + 1]
    /\ UNCHANGED <<queue, worker, future, max_repetitions, attempt, delays,
                   sleeps, exits, valid>>
    /\ UNCHANGED <<ovars, fvars>>

\* time.sleep returns and subprocess.run cannot create the child process:
\* OSError is not caught by run_script
SpawnError(u) ==
    /\ upc[u] = "sleep"
    /\ Raise(u)
    /\ UNCHANGED <<queue, max_repetitions, attempt, delays, sleeps, spawned,
                   exits, valid>>
    /\ UNCHANGED <<ovars, fvars>>

\* the child process exits and run_script goes on
ChildExit(u, status) ==
    /\ upc[u] = "child"
    /\ exits' = [exits EXCEPT ![u] = Append(@, status)]
    /\ IF attempt_failed(status) THEN
           /\ Return(u, FALSE)
           /\ UNCHANGED <<attempt, delays, sleeps>>
       ELSE IF range_has(attempt[u] + 1, max_repetitions[u]) THEN
           /\ attempt' = [attempt EXCEPT ![u] = @ + 1]
           /\ BeginAttempt(u)
           /\ UNCHANGED worker
       ELSE
           /\ Return(u, TRUE)
           /\ UNCHANGED <<attempt, delays, sleeps>>
    /\ UNCHANGED <<queue, max_repetitions, spawned, valid>>
    /\ UNCHANGED <<ovars, fvars>>

----------------------------------------------------------------------------
(* main *)

\* executor.submit(run_script, script) for the next script of the list
Submit ==
    /\ opc = "submit"
    /\ submitted < NumUnits
    /\ submitted' = submitted + 1
    /\ queue' = Append(queue, submitted + 1)
    /\ future' = [future EXCEPT ![submitted + 1] = "pending"]
    /\ opc' = IF submitted + 1 = NumUnits THEN "collect" ELSE "submit"
    /\ UNCHANGED <<scripts, retrieved, successful_scripts, failed_scripts,
                   summary, worker>>
    /\ UNCHANGED <<uvars, fvars>>

\* the loop body without the try/except: the exception escapes main()
on_result_propagate(fut) ==
    IF fut = "exception" THEN "propagate"
    ELSE IF fut = "true" THEN "successful"
    ELSE "failed"

\* the loop body with the branches of `if result` exchanged
on_result_inverted(fut) ==
    IF fut = "exception" THEN "failed"
    ELSE IF fut = "true" THEN "failed"
    ELSE "successful"

\* the body of the as_completed loop: where the unit of a future goes
\* ("successful", "failed", or "propagate" when the exception escapes)
on_result(fut) ==
    IF fut = "exception" THEN "failed"
    ELSE IF fut = "true" THEN "successful"
    ELSE "failed"

\* as_completed yields the future of unit u and the loop body handles it
Retrieve(u) ==
    /\ opc = "collect"
    /\ u \notin retrieved
    /\ future[u] \in {"true", "false", "exception"}
    /\ LET where == on_result(future[u])
       IN  /\ successful_scripts' =
                  IF where = "successful"
                  THEN Append(successful_scripts, scripts[u])
                  ELSE successful_scripts
           /\ failed_scripts' =
                  IF where = "failed"
                  THEN Append(failed_scripts, scripts[u])
                  ELSE failed_scripts
           /\ opc' = IF where = "propagate" THEN "crashed" ELSE opc
    /\ retrieved' = retrieved \cup {u}
    /\ UNCHANGED <<scripts, submitted, summary, queue, worker, future>>
    /\ UNCHANGED <<uvars, fvars>>

\* the summary does not wait for the loop
loop_over_unchecked == TRUE

\* the loop stops one future short
loop_over_early == Cardinality(retrieved) >= NumUnits - 1

\* the as_completed loop is over when every future has been yielded
loop_over == retrieved = Units

\* the with block is left and the summary is logged
LogSummary ==
    /\ opc = "collect"
    /\ loop_over
    /\ summary' = Append(summary, [successful |-> successful_scripts,
                                    failed |-> failed_scripts])
    /\ opc' = "done"
    /\ UNCHANGED <<scripts, submitted, retrieved, successful_scripts,
                   failed_scripts, queue, worker, future>>
    /\ UNCHANGED <<uvars, fvars>>

----------------------------------------------------------------------------
(* The run of main() *)

Init ==
    /\ scripts \in ScriptLists
    /\ submitted = 0
    /\ opc = "submit"
    /\ queue = <<>>
    /\ worker = [w \in Workers |-> 0]
    /\ upc = [u \in Units |-> "pending"]
    /\ max_repetitions = [u \in Units |-> -1]
    /\ attempt = [u \in Units |-> 0]
    /\ delays = [u \in Units |-> 0]
    /\ sleeps = [u \in Units |-> 0]
    /\ spawned = [u \in Units |-> 0]
    /\ exits = [u \in Units |-> <<>>]
    /\ valid = [u \in Units |-> "unchecked"]
    /\ future = [u \in Units |-> "none"]
    /\ retrieved = {}
    /\ successful_scripts = <<>>
    /\ failed_scripts = <<>>
    /\ summary = <<>>
    /\ arg_path = <<>>
    /\ arg_fs = <<>>
    /\ ret_parse = -1
    /\ ret_validate = <<>>

Next ==
    \/ Submit
    \/ \E w \in Workers, f \in FsStates : Start(w, f)
    \/ \E u \in Units : Spawn(u)
    \/ \E u \in Units : SpawnError(u)
    \/ \E u \in Units, status \in ExitStatuses : ChildExit(u, status)
    \/ \E u \in Units : Retrieve(u)
    \/ LogSummary

Spec == Init /\ [][Next]_vars

\* What the scheduling of the program guarantees: main() goes on submitting,
\* an idle worker takes the next work item, time.sleep returns and
\* subprocess.run is called, as_completed yields a finished future and the
\* summary is logged after the loop.  Nothing makes a child process exit:
\* subprocess.run has no timeout.
Fairness ==
    /\ WF_vars(Submit)
    /\ \A w \in Workers : WF_vars(\E f \in FsStates : Start(w, f))
    /\ \A u \in Units : WF_vars(Spawn(u) \/ SpawnError(u))
    /\ \A u \in Units : WF_vars(Retrieve(u))
    /\ WF_vars(LogSummary)

LiveSpec == Init /\ [][Next]_vars /\ Fairness

----------------------------------------------------------------------------
(* parse_repetitions and validate_script on their own: the path is drawn    *)
(* from every stem of at most MaxLen characters followed by one of the      *)
(* endings, the file-system state from FsStates; main() does not run.       *)

StemAlphabet == {"a", "-", "0", "2", "/"}

Stems == UNION {[1..n -> StemAlphabet] : n \in 0..MaxLen}

Endings ==
    { <<>>,
      <<".", "p", "y">>,
      <<".", "p", "y", "\n">>,
      <<".", "p", "y", "\n", "\n">>,
      <<".", "p">>,
      <<"a", "p", "y">>,
      <<".", "p", "y", "a">> }

PathInputs == {stem \o ending : stem \in Stems, ending \in Endings}

FnInit ==
    /\ scripts = [u \in Units |-> UnitPath(u, <<".", "p", "y">>)]
    /\ submitted = 0
    /\ opc = "submit"
    /\ queue = <<>>
    /\ worker = [w \in Workers |-> 0]
    /\ upc = [u \in Units |-> "pending"]
    /\ max_repetitions = [u \in Units |-> -1]
    /\ attempt = [u \in Units |-> 0]
    /\ delays = [u \in Units |-> 0]
    /\ sleeps = [u \in Units |-> 0]
    /\ spawned = [u \in Units |-> 0]
    /\ exits = [u \in Units |-> <<>>]
    /\ valid = [u \in Units |-> "unchecked"]
    /\ future = [u \in Units |-> "none"]
    /\ retrieved = {}
    /\ successful_scripts = <<>>
    /\ failed_scripts = <<>>
    /\ summary = <<>>
    /\ arg_path \in PathInputs
    /\ arg_fs = <<>>
    /\ ret_parse = -1
    /\ ret_validate = <<>>

CallParse ==
    /\ ret_parse = -1
    /\ ret_parse' = parse_repetitions(arg_path)
    /\ UNCHANGED <<arg_path, arg_fs, ret_validate>>
    /\ UNCHANGED <<queue, worker, future, uvars, ovars>>

CallValidate(f) ==
    /\ ret_validate = <<>>
    /\ arg_fs' = <<f>>
    /\ ret_validate' = <<validate_script(f)>>
    /\ UNCHANGED <<arg_path, ret_parse>>
    /\ UNCHANGED <<queue, worker, future, uvars, ovars>>

FnNext ==
    \/ CallParse
    \/ \E f \in FsStates : CallValidate(f)

FnSpec == FnInit /\ [][FnNext]_vars

----------------------------------------------------------------------------
(* Properties of run_script *)

\* the paths a unit may have, and the repeat count parsed from each
UnitPaths == {UnitPath(u, suffix) : u \in Units, suffix \in UnitSuffixes}

RepsOfPath == [p \in UnitPaths |-> parse_repetitions(p)]

\* the repeat count parsed from the path of unit u
Reps(u) == RepsOfPath[scripts[u]]

\* number of occurrences of x in the list seq
Count(seq, x) == Cardinality({i \in 1..Len(seq) : seq[i] = x})

AllZero(seq) == \A i \in 1..Len(seq) : seq[i] = 0

FailedAttempts(u) == {i \in 1..Len(exits[u]) : exits[u][i] # 0}

\* C1: whenever run_script has returned for a unit, the value is true if and
\* only if validate_script accepted the path and each of the attempts
\* 1..repeat count was made and exited with status zero; otherwise it is false.
C1_ReturnValue ==
    \A u \in Units :
        upc[u] = "returned" =>
            /\ future[u] \in {"true", "false"}
            /\ future[u] = "true" <=>
                   /\ valid[u] = "valid"
                   /\ Len(exits[u]) = Reps(u)
                   /\ AllZero(exits[u])

C1_Witness ==
    \E u, v \in Units :
        /\ upc[u] = "returned" /\ future[u] = "true" /\ exits[u] = <<0, 0>>
        /\ upc[v] = "returned" /\ future[v] = "false" /\ exits[v] = <<0, 1>>

\* C2 as stated: the attempts of a unit never exceed its repeat count, and
\* the result of a unit is failure if and only if one of its attempts failed.
C2_AsStated ==
    \A u \in Units :
        /\ spawned[u] <= Reps(u)
        /\ delays[u] <= Reps(u)
        /\ upc[u] = "returned" =>
               (future[u] = "false" <=> FailedAttempts(u) # {})

\* C2 amended: the attempts of a unit never exceed its repeat count, and the
\* result of a unit is failure if and only if the validator rejected it or one
\* of its attempts failed.
C2_AttemptsAndResult ==
    \A u \in Units :
        /\ spawned[u] <= Reps(u)
        /\ delays[u] <= Reps(u)
        /\ upc[u] = "returned" =>
               (future[u] = "false" <=>
                    valid[u] = "invalid" \/ FailedAttempts(u) # {})

C2_Witness ==
    \E u, v \in Units :
        /\ upc[u] = "returned" /\ valid[u] = "invalid" /\ future[u] = "false"
        /\ upc[v] = "returned" /\ valid[v] = "valid" /\ future[v] = "false"
        /\ spawned[v] = Reps(v)

\* C3: once the child of attempt k of a unit has exited non-zero (and none
\* before it), the unit has had exactly k delays and k child processes, its
\* run_script has returned false, and this stays so: no later attempt starts.
C3_StopsAtFirstFailure ==
    \A u \in Units :
        FailedAttempts(u) # {} =>
            LET k == SetMin(FailedAttempts(u))
            IN  /\ valid[u] = "valid"
                /\ k <= Reps(u)
                /\ spawned[u] = k
                /\ delays[u] = k
                /\ sleeps[u] = k
                /\ Len(exits[u]) = k
                /\ upc[u] = "returned"
                /\ future[u] = "false"

C3_Witness ==
    \E u \in Units :
        /\ Reps(u) = 2
        /\ exits[u] = <<1>>
        /\ spawned[u] = 1
        /\ opc = "done"

\* C4: a unit that validate_script rejected has had no delay, no sleep and no
\* child process, its run_script has returned false, and once the orchestrator
\* has handled its future the unit is in the failed list and not in the
\* successful one.
C4_InvalidUnit ==
    \A u \in Units :
        valid[u] = "invalid" =>
            /\ delays[u] = 0
            /\ sleeps[u] = 0
            /\ spawned[u] = 0
            /\ exits[u] = <<>>
            /\ upc[u] = "returned"
            /\ future[u] = "false"
            /\ u \in retrieved =>
                   /\ Count(failed_scripts, scripts[u]) = 1
                   /\ Count(successful_scripts, scripts[u]) = 0

C4_Witness ==
    \E u, v \in Units :
        /\ valid[u] = "invalid"
        /\ u \in retrieved
        /\ opc = "done"
        /\ valid[v] = "valid" /\ future[v] = "true" /\ spawned[v] = 2

----------------------------------------------------------------------------
(* Properties of main *)

\* C5: in the summary that is logged every unit occurs exactly once in the
\* two lists together: in the successful list if and only if its run_script
\* returned true, in the failed list otherwise.
C5_SummaryPartition ==
    opc = "done" =>
        /\ Len(summary) = 1
        /\ \A u \in Units :
               LET ok == summary[1].successful
                   ko == summary[1].failed
               IN  /\ Count(ok, scripts[u]) + Count(ko, scripts[u]) = 1
                   /\ Count(ok, scripts[u]) = 1 <=> future[u] = "true"
                   /\ Count(ko, scripts[u]) = 1 <=> future[u] # "true"

\* the futures were handled against the order of submission
C5_Witness ==
    /\ opc = "done"
    /\ summary[1].successful = <<scripts[3], scripts[1]>>
    /\ summary[1].failed = <<scripts[2]>>

\* C6: an exception stored in a future never escapes the orchestrator; the
\* unit of that future is put in the failed list, once, and in no other list;
\* the lists hold the handled units and nothing else; every other finished
\* future can still be handled, and the summary can be logged once all are.
C6_ExceptionIsolated ==
    /\ opc # "crashed"
    /\ Len(successful_scripts) + Len(failed_scripts) = Cardinality(retrieved)
    /\ \A u \in Units :
           /\ (u \in retrieved /\ future[u] = "exception") =>
                  /\ Count(failed_scripts, scripts[u]) = 1
                  /\ Count(successful_scripts, scripts[u]) = 0
           /\ (u \notin retrieved => Count(failed_scripts, scripts[u]) = 0)
           /\ (/\ submitted = NumUnits
               /\ opc # "done"
               /\ u \notin retrieved
               /\ future[u] \in {"true", "false", "exception"})
                  => ENABLED Retrieve(u)
    /\ (submitted = NumUnits /\ retrieved = Units /\ opc # "done")
           => ENABLED LogSummary

\* the unit whose result raised was handled first, the others after it
C6_Witness ==
    /\ opc = "done"
    /\ \E u \in Units :
           /\ future[u] = "exception"
           /\ failed_scripts[1] = scripts[u]
    /\ Len(successful_scripts) >= 1
    /\ Len(successful_scripts) + Len(failed_scripts) = NumUnits

\* the units whose run_script is between its start and its end
Running == {u \in Units : upc[u] \in {"sleep", "child"}}

Finished(u) == upc[u] \in {"returned", "raised"}

\* C7: at most MaxWorkers units are inside run_script at any moment; each of
\* them is held by exactly one worker and a worker holds nothing else, so a
\* worker has one unit from its start to its end; and a unit beyond the first
\* MaxWorkers has started only if one of the first MaxWorkers has finished.
C7_PoolBound ==
    /\ Cardinality(Running) <= MaxWorkers
    /\ \A u \in Running : Cardinality({w \in Workers : worker[w] = u}) = 1
    /\ \A w \in Workers : worker[w] # 0 => worker[w] \in Running
    /\ \A u \in Units :
           (u > MaxWorkers /\ upc[u] # "pending") =>
               \E v \in 1..MaxWorkers : Finished(v)

\* every worker is busy and a unit waits in the queue
C7_Witness ==
    /\ Cardinality(Running) = MaxWorkers
    /\ \A w \in Workers : worker[w] # 0
    /\ queue # <<>>

----------------------------------------------------------------------------
(* Properties of parse_repetitions and validate_script *)

\* fn ends in "-", n digits and ".py"
EndsInGroup(fn, n) ==
    /\ n >= 1
    /\ Len(fn) >= n + 4
    /\ SubSeq(fn, Len(fn) - 2, Len(fn)) = <<".", "p", "y">>
    /\ \A k \in (Len(fn) - 2 - n)..(Len(fn) - 3) : IsDigit(fn[k])
    /\ fn[Len(fn) - 3 - n] = "-"

\* what C8 says parse_repetitions returns for a path
ClaimedRepetitions(p) ==
    LET fn == basename(p)
        ns == {n \in 1..Len(fn) : EndsInGroup(fn, n)}
    IN  IF ns = {} THEN 1
        ELSE LET n == SetMax(ns)
             IN  ToInt(SubSeq(fn, Len(fn) - 2 - n, Len(fn) - 3))

\* C8: parse_repetitions returns N for a path whose file name ends in
\* "-<N>.py" (the last such group), and 1 for every other file name.
C8_ParseClaim ==
    ret_parse # -1 => ret_parse = ClaimedRepetitions(arg_path)

\* C9: the repeat count parsed for a unit is at least 1, and a unit whose
\* run_script returned true has had at least one child process.
C9_PositiveCount ==
    \A u \in Units :
        /\ max_repetitions[u] # -1 => max_repetitions[u] >= 1
        /\ (upc[u] = "returned" /\ future[u] = "true") => spawned[u] >= 1

\* C10: validate_script returns true exactly for a path that exists, is a
\* regular file and is readable; it logs nothing for such a path, and for any
\* other path exactly one error, that of the first check that fails in the
\* order exists, is a file, is readable.
C10_Validate ==
    ret_validate # <<>> =>
        LET f == arg_fs[1]
            r == ret_validate[1]
            exists == f.kind # "missing"
            isfile == f.kind = "file"
            readable == f.readable
        IN  /\ r.result <=> (exists /\ isfile /\ readable)
            /\ r.errors =
                   IF ~exists THEN <<"Script does not exist">>
                   ELSE IF ~isfile THEN <<"Not a file">>
                   ELSE IF ~readable THEN <<"Script is not readable">>
                   ELSE <<>>

\* a directory that is not readable: two checks would fail, one is reported
C10_Witness ==
    /\ ret_validate # <<>>
    /\ arg_fs[1] = [kind |-> "dir", readable |-> FALSE]
    /\ ret_validate[1].errors = <<"Not a file">>

----------------------------------------------------------------------------
(* Order of the events of one unit *)

\* child processes of unit u that were created and have not exited
Alive(u) == spawned[u] - Len(exits[u])

\* C11: within a unit delays and attempts alternate: while the worker sleeps
\* one delay more than child processes has been drawn, while a child runs
\* there is one delay per child; a delay or a child of attempt i+1 exists only
\* when the children of attempts 1..i have all exited with status zero; and a
\* unit has at most one child alive, whatever the other units are doing.
C11_Alternation ==
    \A u \in Units :
        /\ sleeps[u] = delays[u]
        /\ Alive(u) \in {0, 1}
        /\ Alive(u) = 1 <=> upc[u] = "child"
        /\ upc[u] = "pending" => (delays[u] = 0 /\ spawned[u] = 0)
        /\ upc[u] = "sleep" =>
               /\ delays[u] = spawned[u] + 1
               /\ Len(exits[u]) = attempt[u]
               /\ AllZero(exits[u])
        /\ upc[u] = "child" =>
               /\ delays[u] = spawned[u]
               /\ spawned[u] = attempt[u] + 1
               /\ AllZero(exits[u])
        /\ upc[u] = "returned" => delays[u] = spawned[u]
        /\ upc[u] = "raised" => delays[u] = spawned[u] + 1

\* two units have a child alive at once, one of them in its second attempt
C11_Witness ==
    \E u, v \in Units :
        /\ u # v
        /\ upc[u] = "child" /\ spawned[u] = 2 /\ exits[u] = <<0>>
        /\ upc[v] = "child"

----------------------------------------------------------------------------
(* The summary *)

\* C12: at most one summary is logged; when it is, the future of every unit
\* has been handled and recorded in one of the two lists; and the lists are
\* from then on the ones the summary showed: nothing is added or removed.
C12_SummaryOnceAtEnd ==
    /\ Len(summary) <= 1
    /\ summary # <<>> =>
           /\ opc = "done"
           /\ retrieved = Units
           /\ \A u \in Units : future[u] \in {"true", "false", "exception"}
           /\ Len(successful_scripts) + Len(failed_scripts) = NumUnits
           /\ summary[1].successful = successful_scripts
           /\ summary[1].failed = failed_scripts

\* a summary was logged after a run in which the last unit, which had to wait
\* for a worker, made both of its attempts
C12_Witness ==
    /\ Len(summary) = 1
    /\ spawned[NumUnits] = 2
    /\ summary[1].failed = <<scripts[1], scripts[2]>>
    /\ summary[1].successful = <<scripts[NumUnits]>>

----------------------------------------------------------------------------
(* Termination *)

\* the path of unit u is in one of the two lists
Recorded(u) ==
    Count(successful_scripts, scripts[u]) + Count(failed_scripts, scripts[u]) = 1

\* C13: under the fairness of the scheduling, either some child process
\* stays alive for ever, or the run reaches the point where every unit was
\* started and recorded as successful or failed and the summary was logged.
C13_Termination ==
    \/ <>(/\ opc = "done"
          /\ Len(summary) = 1
          /\ \A u \in Units : upc[u] # "pending" /\ Recorded(u))
    \/ \E u \in Units : <>[](upc[u] = "child")

\* the run ended, and the last unit, which had to wait for a worker, was
\* started, ran both of its attempts and was recorded
C13_Witness ==
    /\ opc = "done"
    /\ exits[NumUnits] = <<0, 0>>
    /\ Recorded(NumUnits)
    /\ exits[1] = <<0, 1>>

----------------------------------------------------------------------------
(* Isolation of the units *)

\* what unit u alone decides: it is valid and each of the attempts of its
\* repeat count was made and exited with status zero
OwnSuccess(u) ==
    /\ valid[u] = "valid"
    /\ Len(exits[u]) = Reps(u)
    /\ AllZero(exits[u])

\* C14: in every run, under every interleaving and whatever the other units
\* are (invalid, failing, raising), the list a unit is recorded in and the
\* number of its attempts are a function of its own validity, repeat count
\* and exit statuses alone; so two runs that agree on these for a unit record
\* the same outcome and the same number of attempts for it.
C14_OwnInputsDecide ==
    \A u \in retrieved :
        /\ Count(successful_scripts, scripts[u]) = (IF OwnSuccess(u) THEN 1 ELSE 0)
        /\ Count(failed_scripts, scripts[u]) = (IF OwnSuccess(u) THEN 0 ELSE 1)
        /\ spawned[u] = Len(exits[u])
        /\ spawned[u] <= Reps(u)
        /\ valid[u] = "invalid" => spawned[u] = 0
        /\ \A i \in 1..(Len(exits[u]) - 1) : exits[u][i] = 0

\* a unit is recorded as successful after both of its attempts, although one
\* other unit was rejected and another raised, both handled before it
C14_Witness ==
    \E u, v, w \in Units :
        /\ u \in retrieved /\ OwnSuccess(u) /\ Reps(u) = 2
        /\ successful_scripts = <<scripts[u]>>
        /\ valid[v] = "invalid" /\ future[w] = "exception"
        /\ failed_scripts = <<scripts[v], scripts[w]>>

====
